---------------------------- MODULE Spec2Model ----------------------------
(***************************************************************************)
(* Recipe-LLM-agent: the recipe validator (src/src/llm/output_validator.py)*)
(* the recipe generator (src/src/llm/recipe_generator.py), the request     *)
(* handlers (src/src/api/routers.py) and the preference storage            *)
(* (src/src/db/mongodb_handler.py, src/src/db/ingredient_manager.py).      *)
(*                                                                         *)
(* Python values are modelled as records.  A text (str) is a sequence of   *)
(* one-character strings, so that str.lower() and the substring test `in`  *)
(* are computed, not assumed.  A quantity is a Python int or a Python str  *)
(* of decimal digits; `<=` on two ints is numeric, on two strs it is       *)
(* lexicographic, and on an int and a str it raises TypeError.             *)
(***************************************************************************)
EXTENDS Integers, Sequences, FiniteSets, TLC

VARIABLES
    validator,   \* the RecipeValidator object last constructed, or NoValidator
    call,        \* the last call made: its operation, arguments and outcome
    store,       \* the documents of the MongoDB collection, in natural order
    requests     \* the generate-recipes requests being served, each with
                 \* its position in the handler and its local variables

vars == <<validator, call, store, requests>>

-----------------------------------------------------------------------------
(* Bounds of the model *)

\* entries of a recipe collection handed to validate_recipes
MaxRecipes == 2

\* ingredients listed by one recipe candidate
MaxIngredients == 2

\* entries of the ingredient preference list handed to save_preferences
MaxPreferences == 3

\* documents inserted into the collection through the insert endpoint
MaxStored == 2

-----------------------------------------------------------------------------
(* Texts *)

UpperCase == <<"A","B","C","D","E","F","G","H","I","J","K","L","M",
               "N","O","P","Q","R","S","T","U","V","W","X","Y","Z">>
LowerCase == <<"a","b","c","d","e","f","g","h","i","j","k","l","m",
               "n","o","p","q","r","s","t","u","v","w","x","y","z">>

\* str.lower() on one character
LowerChar(c) ==
    IF \E i \in DOMAIN UpperCase : UpperCase[i] = c
    THEN LowerCase[CHOOSE i \in DOMAIN UpperCase : UpperCase[i] = c]
    ELSE c

\* str.lower()
lower(s) == [i \in DOMAIN s |-> LowerChar(s[i])]

\* Python's `sub in s` on two strs
StrIn(sub, s) ==
    \E i \in 0..(Len(s) - Len(sub)) : SubSeq(s, i + 1, i + Len(sub)) = sub

oil == <<"o","i","l">>
Oil == <<"O","i","l">>
egg == <<"e","g","g">>
fry_egg == <<"f","r","y"," ","e","g","g">>
add_OIL == <<"a","d","d"," ","O","I","L">>
boil == <<"b","o","i","l">>

-----------------------------------------------------------------------------
(* Quantities: a Python int, or a Python str of decimal digits *)

PyInt(n) == [t |-> "int", n |-> n, s |-> <<>>]
PyStr(digits) == [t |-> "str", n |-> 0, s |-> digits]

\* Python's a < b on two strs of digits: the first differing character
\* decides, a proper prefix is smaller
StrLess(a, b) ==
    \E k \in 1..Len(b) :
        /\ \A j \in 1..(k - 1) : j <= Len(a) /\ a[j] = b[j]
        /\ (k > Len(a) \/ a[k] < b[k])

\* Python's a <= b: [exc, ret]
PyLessEq(a, b) ==
    IF a.t = "int" /\ b.t = "int"
    THEN [exc |-> "none", ret |-> a.n <= b.n]
    ELSE IF a.t = "str" /\ b.t = "str"
    THEN [exc |-> "none", ret |-> (a.s = b.s \/ StrLess(a.s, b.s))]
    ELSE [exc |-> "TypeError", ret |-> FALSE]

-----------------------------------------------------------------------------
(* RecipeValidator *)

NoValidator ==
    [made |-> FALSE, available_ingredients |-> <<>>,
     disliked_ingredients |-> [t |-> "list", items |-> <<>>],
     min_ingredients_required |-> 0]

\* Python truthiness of a list, tuple, str or None argument
Truthy(arg) == arg.t # "NoneType" /\ arg.items # <<>>

\* RecipeValidator.__init__: [exc, self]
RecipeValidator_init(available_ingredients, disliked_ingredients, min_ingredients_required) ==
    IF ~Truthy(available_ingredients) \/ available_ingredients.t # "list"
    THEN [exc |-> "ValueError", self |-> NoValidator]
    ELSE IF ~(\A i \in DOMAIN available_ingredients.items :
                LET ingredient == available_ingredients.items[i] IN
                /\ ingredient.t = "dict"
                /\ "name" \in ingredient.keys
                /\ "quantity" \in ingredient.keys)
    THEN [exc |-> "ValueError", self |-> NoValidator]
    ELSE IF Truthy(disliked_ingredients) /\ disliked_ingredients.t # "list"
    THEN [exc |-> "ValueError", self |-> NoValidator]
    ELSE IF min_ingredients_required.t # "int"
            \/ min_ingredients_required.n <= 0
    THEN [exc |-> "ValueError", self |-> NoValidator]
    ELSE [exc |-> "none",
          self |-> [made |-> TRUE,
                    available_ingredients |-> available_ingredients.items,
                    disliked_ingredients |-> disliked_ingredients,
                    min_ingredients_required |-> min_ingredients_required.n]]

required_fields ==
    <<"name", "ingredients", "steps", "cooking_time", "difficulty_level">>

\* as validate_recipe_structure, with the last required field left unchecked
validate_recipe_structure_four_fields(self, recipe) ==
    ~ \E i \in 1..(Len(required_fields) - 1) :
          required_fields[i] \notin recipe.keys

\* RecipeValidator.validate_recipe_structure: the first required field
\* missing from the recipe makes it return False
validate_recipe_structure(self, recipe) ==
    ~ \E i \in DOMAIN required_fields : required_fields[i] \notin recipe.keys

\* RecipeValidator.is_quantity_sufficient: [exc, ret]
is_quantity_sufficient(required_quantity, available_quantity) ==
    PyLessEq(required_quantity, available_quantity)

\* as available_ingredient, looking up the lowered name of the ingredient
available_ingredient_lowered_name(self, ingredient_name) ==
    LET hits == {k \in DOMAIN self.available_ingredients :
                    self.available_ingredients[k].name
                        = lower(ingredient_name)}
    IN IF hits = {} THEN 0
       ELSE CHOOSE k \in hits : \A h \in hits : k <= h

\* as available_ingredient, matching names whatever their letter case
available_ingredient_any_case(self, ingredient_name) ==
    LET hits == {k \in DOMAIN self.available_ingredients :
                    lower(self.available_ingredients[k].name)
                        = lower(ingredient_name)}
    IN IF hits = {} THEN 0
       ELSE CHOOSE k \in hits : \A h \in hits : k <= h

\* the lookup next((item for item in available if item["name"] == name), None):
\* the index of the first match, 0 for None
available_ingredient(self, ingredient_name) ==
    LET hits == {k \in DOMAIN self.available_ingredients :
                    self.available_ingredients[k].name = ingredient_name}
    IN IF hits = {} THEN 0
       ELSE CHOOSE k \in hits : \A h \in hits : k <= h

\* RecipeValidator.validate_ingredient_quantities: [exc, ret]
validate_ingredient_quantities(self, ingredients) ==
    LET RECURSIVE loop(_)
        loop(i) ==
            IF i > Len(ingredients)
            THEN [exc |-> "none", ret |-> TRUE]
            ELSE LET ingredient == ingredients[i] IN
                 IF "name" \notin ingredient.keys
                    \/ "quantity" \notin ingredient.keys
                 THEN [exc |-> "KeyError", ret |-> FALSE]
                 ELSE LET k == available_ingredient(self, ingredient.name) IN
                      IF k = 0
                      THEN loop(i + 1)
                      ELSE LET r == is_quantity_sufficient(
                                        ingredient.quantity,
                                        self.available_ingredients[k].quantity)
                           IN IF r.exc # "none" THEN r
                              ELSE IF ~r.ret
                              THEN [exc |-> "none", ret |-> FALSE]
                              ELSE loop(i + 1)
    IN loop(1)

\* as mentioned, without lowering the two texts
mentioned_exact_case(name, step) == StrIn(name, step)

\* ingredient["name"].lower() in step.lower()
mentioned(name, step) == StrIn(lower(name), lower(step))

\* as validate_culinary_sense, refusing a recipe that lists a disliked name
validate_culinary_sense_avoiding_disliked(self, ingredients, steps) ==
    IF \E i \in DOMAIN ingredients :
          \E d \in DOMAIN self.disliked_ingredients.items :
              /\ "name" \in ingredients[i].keys
              /\ ingredients[i].name = self.disliked_ingredients.items[d]
    THEN [exc |-> "none", ret |-> FALSE]
    ELSE IF Len(ingredients) < self.min_ingredients_required
    THEN [exc |-> "none", ret |-> FALSE]
    ELSE IF \E i \in DOMAIN ingredients :
               steps # <<>> /\ "name" \notin ingredients[i].keys
    THEN [exc |-> "KeyError", ret |-> FALSE]
    ELSE [exc |-> "none",
          ret |-> \A i \in DOMAIN ingredients :
                     \E j \in DOMAIN steps :
                         mentioned(ingredients[i].name, steps[j])]

\* RecipeValidator.validate_culinary_sense: [exc, ret]
validate_culinary_sense(self, ingredients, steps) ==
    IF Len(ingredients) < self.min_ingredients_required
    THEN [exc |-> "none", ret |-> FALSE]
    ELSE LET RECURSIVE loop(_)
             loop(i) ==
                 IF i > Len(ingredients)
                 THEN [exc |-> "none", ret |-> TRUE]
                 \* any() over no steps is False before the name is read
                 ELSE IF steps = <<>>
                 THEN [exc |-> "none", ret |-> FALSE]
                 ELSE IF "name" \notin ingredients[i].keys
                 THEN [exc |-> "KeyError", ret |-> FALSE]
                 ELSE IF ~ \E j \in DOMAIN steps :
                             mentioned(ingredients[i].name, steps[j])
                 THEN [exc |-> "none", ret |-> FALSE]
                 ELSE loop(i + 1)
         IN loop(1)

\* as validate_recipes, putting each accepted recipe in front of the list
validate_recipes_prepending(self, recipes) ==
    LET RECURSIVE loop(_, _, _, _)
        loop(i, valid_recipes, checks, logged) ==
            IF i > Len(recipes)
            THEN [exc |-> "none", ret |-> valid_recipes, checks |-> checks,
                  logged |-> logged]
            ELSE
            LET recipe == recipes[i].recipe
                error(msg) ==
                    Append(logged, [key |-> recipes[i].key, error |-> msg])
                c1 == checks \o <<[at |-> i, check |-> "structure"]>>
                c2 == c1 \o <<[at |-> i, check |-> "quantities"]>>
                c3 == c2 \o <<[at |-> i, check |-> "culinary_sense"]>>
            IN
            IF ~validate_recipe_structure(self, recipe)
            THEN loop(i + 1, valid_recipes, c1, error("structure is invalid"))
            ELSE
            LET q == validate_ingredient_quantities(self, recipe.ingredients)
            IN
            IF q.exc # "none"
            THEN [exc |-> q.exc, ret |-> <<>>, checks |-> c2, logged |-> logged]
            ELSE IF ~q.ret
            THEN loop(i + 1, valid_recipes, c2,
                      error("contains unavailable ingredients"))
            ELSE
            LET s == validate_culinary_sense(self, recipe.ingredients,
                                             recipe.steps)
            IN
            IF s.exc # "none"
            THEN [exc |-> s.exc, ret |-> <<>>, checks |-> c3, logged |-> logged]
            ELSE IF ~s.ret
            THEN loop(i + 1, valid_recipes, c3,
                      error("does not make culinary sense"))
            ELSE loop(i + 1, <<recipe>> \o valid_recipes, c3, logged)
    IN loop(1, <<>>, <<>>, <<>>)

\* RecipeValidator.validate_recipes: [exc, ret, checks, logged]; checks lists,
\* in order, the checks that were run and the entry each was run against;
\* logged lists the logger.error records, by recipe key
validate_recipes(self, recipes) ==
    LET RECURSIVE loop(_, _, _, _)
        loop(i, valid_recipes, checks, logged) ==
            IF i > Len(recipes)
            THEN [exc |-> "none", ret |-> valid_recipes, checks |-> checks,
                  logged |-> logged]
            ELSE
            LET recipe == recipes[i].recipe
                error(msg) ==
                    Append(logged, [key |-> recipes[i].key, error |-> msg])
                c1 == checks \o <<[at |-> i, check |-> "structure"]>>
                c2 == c1 \o <<[at |-> i, check |-> "quantities"]>>
                c3 == c2 \o <<[at |-> i, check |-> "culinary_sense"]>>
            IN
            IF ~validate_recipe_structure(self, recipe)
            THEN loop(i + 1, valid_recipes, c1, error("structure is invalid"))
            ELSE
            LET q == validate_ingredient_quantities(self, recipe.ingredients)
            IN
            IF q.exc # "none"
            THEN [exc |-> q.exc, ret |-> <<>>, checks |-> c2, logged |-> logged]
            ELSE IF ~q.ret
            THEN loop(i + 1, valid_recipes, c2,
                      error("contains unavailable ingredients"))
            ELSE
            LET s == validate_culinary_sense(self, recipe.ingredients,
                                             recipe.steps)
            IN
            IF s.exc # "none"
            THEN [exc |-> s.exc, ret |-> <<>>, checks |-> c3, logged |-> logged]
            ELSE IF ~s.ret
            THEN loop(i + 1, valid_recipes, c3,
                      error("does not make culinary sense"))
            ELSE loop(i + 1, Append(valid_recipes, recipe), c3, logged)
    IN loop(1, <<>>, <<>>, <<>>)

\* as validate_recipes_leaves, the call consuming the collection it is given
validate_recipes_consuming(self, recipes) ==
    [self |-> self, recipes |-> <<>>]

\* as validate_recipes_leaves, the call raising the validator's minimum
validate_recipes_raising_min(self, recipes) ==
    [self |-> [self EXCEPT !.min_ingredients_required = @ + 1],
     recipes |-> recipes]

\* the validator and the collection as validate_recipes leaves them: the
\* method assigns no attribute of self and no entry or field of recipes
validate_recipes_leaves(self, recipes) ==
    [self |-> self, recipes |-> recipes]

-----------------------------------------------------------------------------
(* The values the calls are made with *)

AllFields == {required_fields[i] : i \in DOMAIN required_fields}

\* a recipe ingredient {"name": ..., "quantity": ...}, and entries lacking a key
Ingredient(name, quantity) ==
    [keys |-> {"name", "quantity"}, name |-> name, quantity |-> quantity]
NoQuantity(name) == [keys |-> {"name"}, name |-> name, quantity |-> PyInt(0)]
NoName(quantity) == [keys |-> {"quantity"}, name |-> <<>>, quantity |-> quantity]

\* an available ingredient {"name": ..., "quantity": ..., "unit": ...}
Available(name, quantity) ==
    [t |-> "dict", keys |-> {"name", "quantity", "unit"},
     name |-> name, quantity |-> quantity]

\* the seqs over S of length 0..n
SeqsUpTo(S, n) == UNION {[1..k -> S] : k \in 0..n}

RecipeIngredients ==
    {Ingredient(oil, q) :
        q \in {PyInt(1), PyInt(3), PyStr(<<9>>), PyStr(<<1, 0>>)}}
    \cup {Ingredient(egg, PyInt(1)), Ingredient(egg, PyInt(3)),
          Ingredient(Oil, PyInt(3)),
          NoQuantity(oil), NoName(PyInt(1))}

IngredientLists == SeqsUpTo(RecipeIngredients, MaxIngredients)

StepLists == {<<>>, <<fry_egg>>, <<boil, fry_egg>>, <<add_OIL, fry_egg>>}

\* a recipe candidate: a dict with the keys `keys`
Recipe(keys, ingredients, steps) ==
    [keys |-> keys,
     ingredients |-> IF "ingredients" \in keys THEN ingredients ELSE <<>>,
     steps |-> IF "steps" \in keys THEN steps ELSE <<>>]

\* the candidates of the collections with several entries
SmallIngredientLists ==
    {<<Ingredient(oil, PyInt(1))>>, <<Ingredient(oil, PyInt(2))>>,
     <<Ingredient(oil, PyInt(3))>>, <<Ingredient(oil, PyStr(<<9>>))>>,
     <<NoQuantity(oil)>>}
SmallRecipes ==
    {Recipe(AllFields, l, s) :
        l \in SmallIngredientLists, s \in {<<add_OIL>>, <<fry_egg>>}}
    \cup {Recipe(AllFields \ {f}, <<Ingredient(oil, PyInt(1))>>, <<add_OIL>>) :
            f \in AllFields}

Recipes ==
    {Recipe(AllFields, l, s) : l \in IngredientLists, s \in StepLists}
    \cup SmallRecipes

\* the keys of a dict of n recipes, in iteration order: "recipe_1" .. "recipe_n"
\* (written 1..n), inserted in ascending or in descending order
KeyOrders(n) == {[i \in 1..n |-> i], [i \in 1..n |-> n + 1 - i]}

\* a dict of recipes in iteration order
Collections ==
    {<<[key |-> 1, recipe |-> r]>> : r \in Recipes}
    \cup UNION {
           {[i \in 1..n |-> [key |-> k[i], recipe |-> rs[i]]] :
                k \in KeyOrders(n), rs \in [1..n -> SmallRecipes]} :
           n \in 0..MaxRecipes}

PyList(items) == [t |-> "list", items |-> items]
PyTuple(items) == [t |-> "tuple", items |-> items]
PyText(items) == [t |-> "str", items |-> items]
PyNone == [t |-> "NoneType", items |-> <<>>]

AvailableLists ==
    {<<Available(oil, PyStr(<<9>>))>>,
     <<Available(oil, PyStr(<<1, 0>>))>>,
     <<Available(egg, PyInt(2)), Available(oil, PyInt(2))>>}

AvailableArgs ==
    {PyList(l) : l \in AvailableLists}
    \cup {PyList(<<>>), PyNone, PyTuple(<<Available(oil, PyInt(2))>>),
          PyList(<<Available(oil, PyInt(2)),
                   [t |-> "str", keys |-> {}, name |-> egg,
                    quantity |-> PyInt(0)]>>),
          PyList(<<[t |-> "dict", keys |-> {"quantity", "unit"},
                    name |-> <<>>, quantity |-> PyInt(2)]>>),
          PyList(<<[t |-> "dict", keys |-> {"name"},
                    name |-> oil, quantity |-> PyInt(0)]>>)}

DislikedArgs ==
    {PyList(<<>>), PyList(<<egg>>), PyText(<<egg>>), PyText(<<>>)}

MinArgs ==
    {[t |-> "int", n |-> n] : n \in {-1, 0, 1, 2}}
    \cup {[t |-> "str", n |-> 2], [t |-> "float", n |-> 2]}

-----------------------------------------------------------------------------
(* The calls on a RecipeValidator *)

NoCall == [op |-> "none"]

\* A run constructs one validator and makes one call on it.

\* RecipeValidator(available, disliked, min)
Construct ==
    /\ call.op = "none"
    /\ \E a \in AvailableArgs, d \in DislikedArgs, m \in MinArgs :
        LET r == RecipeValidator_init(a, d, m) IN
        /\ validator' = r.self
        /\ call' = [op |-> "init", available |-> a, disliked |-> d,
                    min |-> m, exc |-> r.exc]
    /\ UNCHANGED <<store, requests>>

ValidateRecipeStructure ==
    /\ validator.made /\ call.op = "init"
    /\ \E recipe \in SmallRecipes :
        call' = [op |-> "validate_recipe_structure", recipe |-> recipe,
                 exc |-> "none",
                 ret |-> validate_recipe_structure(validator, recipe)]
    /\ UNCHANGED <<validator, store, requests>>

ValidateIngredientQuantities ==
    /\ validator.made /\ call.op = "init"
    /\ \E ingredients \in IngredientLists :
        LET r == validate_ingredient_quantities(validator, ingredients) IN
        call' = [op |-> "validate_ingredient_quantities",
                 ingredients |-> ingredients, exc |-> r.exc, ret |-> r.ret]
    /\ UNCHANGED <<validator, store, requests>>

ValidateCulinarySense ==
    /\ validator.made /\ call.op = "init"
    /\ \E ingredients \in IngredientLists, steps \in StepLists :
        LET r == validate_culinary_sense(validator, ingredients, steps) IN
        call' = [op |-> "validate_culinary_sense",
                 ingredients |-> ingredients, steps |-> steps,
                 exc |-> r.exc, ret |-> r.ret]
    /\ UNCHANGED <<validator, store, requests>>

ValidateRecipes ==
    /\ validator.made /\ call.op = "init"
    /\ \E recipes \in Collections :
        LET r == validate_recipes(validator, recipes)
            left == validate_recipes_leaves(validator, recipes)
        IN
        /\ validator' = left.self
        /\ call' = [op |-> "validate_recipes", recipes |-> left.recipes,
                    exc |-> r.exc, ret |-> r.ret, checks |-> r.checks,
                    logged |-> r.logged,
                    given |-> [self |-> validator, recipes |-> recipes]]
    /\ UNCHANGED <<store, requests>>

\* validate_recipes once more, on the same validator and collection
ValidateRecipesAgain ==
    /\ call.op = "validate_recipes"
    /\ LET r == validate_recipes(validator, call.recipes)
           left == validate_recipes_leaves(validator, call.recipes)
       IN
       /\ validator' = left.self
       /\ call' = [op |-> "validate_recipes_again", recipes |-> left.recipes,
                   exc |-> call.exc, ret |-> call.ret,
                   checks |-> call.checks, logged |-> call.logged,
                   given |-> call.given,
                   again |-> [exc |-> r.exc, ret |-> r.ret]]
    /\ UNCHANGED <<store, requests>>

\* the two concurrent tasks serving generate-recipes requests
Requests == {1, 2}

Idle == [pc |-> "idle"]

Init ==
    /\ validator = NoValidator
    /\ call = NoCall
    /\ store = <<>>
    /\ requests = [r \in Requests |-> Idle]

Next ==
    \/ Construct
    \/ ValidateRecipeStructure
    \/ ValidateIngredientQuantities
    \/ ValidateCulinarySense
    \/ ValidateRecipes
    \/ ValidateRecipesAgain

Spec == Init /\ [][Next]_vars

-----------------------------------------------------------------------------
(* RecipeGenerator *)

\* an element of an ingredient list handed to generate_recipes
StrElem(text) == [t |-> "str", text |-> text]
IntElem == [t |-> "int", text |-> <<>>]

\* Python values generate_recipes handles: the decoded reply {"recipes": {..}},
\* a decoded reply of another shape, the empty list [], and no value
RecipesDict(recipes) == [shape |-> "recipes", recipes |-> recipes]
OtherJson == [shape |-> "other", recipes |-> <<>>]
EmptyList == [shape |-> "list", recipes |-> <<>>]
NoValue == [shape |-> "none", recipes |-> <<>>]

\* a reply text: the JSON document of a value, or a text that is no JSON
JsonText(value) == [json |-> TRUE, value |-> value]
NotJson == [json |-> FALSE, value |-> NoValue]

\* as _validate_ingredients, with the disliked list left unchecked
_validate_ingredients_two_lists(ingredients, liked_ingredients, disliked_ingredients) ==
    IF \E i \in DOMAIN ingredients : ingredients[i].t # "str"
    THEN [exc |-> "ValueError", warnings |-> <<>>]
    ELSE IF \E i \in DOMAIN liked_ingredients : liked_ingredients[i].t # "str"
    THEN [exc |-> "ValueError", warnings |-> <<>>]
    ELSE [exc |-> "none", warnings |-> <<>>]

\* as _validate_ingredients, with an empty list refused as well
_validate_ingredients_rejecting_empty(ingredients, liked_ingredients, disliked_ingredients) ==
    IF \/ _validate_ingredients_two_lists(ingredients, liked_ingredients,
                                          disliked_ingredients).exc # "none"
       \/ \E i \in DOMAIN disliked_ingredients :
              disliked_ingredients[i].t # "str"
       \/ <<>> \in {ingredients, liked_ingredients, disliked_ingredients}
    THEN [exc |-> "ValueError", warnings |-> <<>>]
    ELSE [exc |-> "none", warnings |-> <<>>]

\* RecipeGenerator._validate_ingredients: [exc, warnings]
_validate_ingredients(ingredients, liked_ingredients, disliked_ingredients) ==
    IF \E i \in DOMAIN ingredients : ingredients[i].t # "str"
    THEN [exc |-> "ValueError", warnings |-> <<>>]
    ELSE IF \E i \in DOMAIN liked_ingredients : liked_ingredients[i].t # "str"
    THEN [exc |-> "ValueError", warnings |-> <<>>]
    ELSE IF \E i \in DOMAIN disliked_ingredients :
                disliked_ingredients[i].t # "str"
    THEN [exc |-> "ValueError", warnings |-> <<>>]
    ELSE [exc |-> "none",
          warnings |->
              (IF ingredients = <<>>
               THEN <<"No available ingredients provided">> ELSE <<>>)
              \o (IF liked_ingredients = <<>>
                  THEN <<"No liked ingredients provided">> ELSE <<>>)
              \o (IF disliked_ingredients = <<>>
                  THEN <<"No disliked ingredients provided">> ELSE <<>>)]

\* RecipeGenerator._format_prompt: the template with its four substitutions
_format_prompt(self, available_ingredients, liked_ingredients, disliked_ingredients) ==
    [template |-> self.prompt_template,
     available_ingredients |-> available_ingredients,
     liked_ingredients |-> liked_ingredients,
     disliked_ingredients |-> disliked_ingredients,
     format_instructions |-> self.parser]

\* RecipeGenerator._invoke_llm: [exc, text].  llm is what the awaited
\* self.llm.generate_response(prompt_text) does on this call: it returns a
\* message exposing content, a plain str or another object, or it raises
_invoke_llm(llm, prompt_text) ==
    IF llm.does = "raise"
    THEN [exc |-> "ValueError", text |-> NotJson]
    ELSE IF llm.reply = "message"
    THEN [exc |-> "none", text |-> llm.text]     \* response.content
    ELSE [exc |-> "none", text |-> llm.text]     \* str(response)

\* self.parser.parse(response_text): [exc, ret].  A text that is no JSON
\* raises; a parser that checks the decoded value against the schema raises
\* on another shape, a parser that only decodes returns the value as it is
parser_parse(parser, response_text) ==
    IF ~response_text.json
    THEN [exc |-> "OutputParserException", ret |-> NoValue]
    ELSE IF parser = "schema_checked" /\ response_text.value.shape # "recipes"
    THEN [exc |-> "OutputParserException", ret |-> NoValue]
    ELSE [exc |-> "none", ret |-> response_text.value]

\* as _parse_recipes, without its try/except
_parse_recipes_uncaught(self, response_text) ==
    LET r == parser_parse(self.parser, response_text) IN
    [exc |-> r.exc, ret |-> r.ret, caught |-> "none"]

\* RecipeGenerator._parse_recipes: [exc, ret, caught]
_parse_recipes(self, response_text) ==
    LET r == parser_parse(self.parser, response_text) IN
    IF r.exc # "none"
    THEN [exc |-> "none", ret |-> EmptyList, caught |-> r.exc]
    ELSE [exc |-> "none", ret |-> r.ret, caught |-> "none"]

\* the outcome of one generate_recipes call: what it raised or returned, the
\* warnings logged, whether the prompt was built, the prompts the model was
\* invoked with, the reply text, what _parse_recipes returned and caught, and
\* the error generate_recipes' own handler caught
GenOutcome(exc, ret, warnings, built, prompts, text, parsed, parse_caught, caught) ==
    [exc |-> exc, ret |-> ret, warnings |-> warnings, prompt_built |-> built,
     llm_prompts |-> prompts, response_text |-> text, parsed |-> parsed,
     parse_caught |-> parse_caught, caught |-> caught]

\* as generate_recipes, without its try/except
generate_recipes_uncaught(self, ingredients, liked_ingredients, disliked_ingredients, llm) ==
    LET v == _validate_ingredients(ingredients, liked_ingredients,
                                   disliked_ingredients)
        prompt_text == _format_prompt(self, ingredients, liked_ingredients,
                                      disliked_ingredients)
        r == _invoke_llm(llm, prompt_text)
        p == _parse_recipes(self, r.text)
    IN
    IF v.exc # "none"
    THEN GenOutcome(v.exc, NoValue, v.warnings, FALSE, <<>>, NotJson,
                    NoValue, "none", "none")
    ELSE IF r.exc # "none"
    THEN GenOutcome(r.exc, NoValue, v.warnings, TRUE, <<prompt_text>>, NotJson,
                    NoValue, "none", "none")
    ELSE GenOutcome(p.exc, p.ret, v.warnings, TRUE, <<prompt_text>>, r.text,
                    p.ret, p.caught, "none")

\* as generate_recipes, invoking the model a second time after a failure
generate_recipes_retrying(self, ingredients, liked_ingredients, disliked_ingredients, llm) ==
    LET v == _validate_ingredients(ingredients, liked_ingredients,
                                   disliked_ingredients)
        prompt_text == _format_prompt(self, ingredients, liked_ingredients,
                                      disliked_ingredients)
        r == _invoke_llm(llm, prompt_text)
        p == _parse_recipes(self, r.text)
    IN
    IF v.exc # "none"
    THEN GenOutcome(v.exc, NoValue, v.warnings, FALSE, <<>>, NotJson,
                    NoValue, "none", "none")
    ELSE IF r.exc # "none"
    THEN GenOutcome("none", EmptyList, v.warnings, TRUE,
                    <<prompt_text, prompt_text>>, NotJson, NoValue, "none",
                    r.exc)
    ELSE IF p.exc # "none"
    THEN GenOutcome("none", EmptyList, v.warnings, TRUE, <<prompt_text>>,
                    r.text, NoValue, "none", p.exc)
    ELSE GenOutcome("none", p.ret, v.warnings, TRUE, <<prompt_text>>, r.text,
                    p.ret, p.caught, "none")

\* RecipeGenerator.generate_recipes
generate_recipes(self, ingredients, liked_ingredients, disliked_ingredients, llm) ==
    LET v == _validate_ingredients(ingredients, liked_ingredients,
                                   disliked_ingredients)
        prompt_text == _format_prompt(self, ingredients, liked_ingredients,
                                      disliked_ingredients)
        r == _invoke_llm(llm, prompt_text)
        p == _parse_recipes(self, r.text)
    IN
    IF v.exc # "none"
    THEN GenOutcome(v.exc, NoValue, v.warnings, FALSE, <<>>, NotJson,
                    NoValue, "none", "none")
    ELSE IF r.exc # "none"
    THEN GenOutcome("none", EmptyList, v.warnings, TRUE, <<prompt_text>>,
                    NotJson, NoValue, "none", r.exc)
    ELSE IF p.exc # "none"
    THEN GenOutcome("none", EmptyList, v.warnings, TRUE, <<prompt_text>>,
                    r.text, NoValue, "none", p.exc)
    ELSE GenOutcome("none", p.ret, v.warnings, TRUE, <<prompt_text>>, r.text,
                    p.ret, p.caught, "none")

(* The values generate_recipes is called with *)

ElemLists == SeqsUpTo({StrElem(oil), IntElem}, MaxIngredients)

\* the replies of the model
ReplyTexts ==
    {NotJson, JsonText(OtherJson), JsonText(RecipesDict(<<>>)),
     JsonText(RecipesDict(<<[key |-> 1,
                            recipe |-> Recipe(AllFields,
                                              <<Ingredient(oil, PyInt(1))>>,
                                              <<add_OIL>>)]>>))}

\* what self.llm.generate_response can do on one call
LlmOutcomes ==
    {[does |-> "return", reply |-> k, text |-> t, exc |-> "none"] :
        k \in {"message", "str"}, t \in ReplyTexts}
    \cup {[does |-> "return", reply |-> "object", text |-> NotJson,
           exc |-> "none"]}
    \cup {[does |-> "raise", reply |-> "none", text |-> NotJson, exc |-> e] :
            e \in {"ValueError", "AttributeError"}}

Parsers == {"decode_only", "schema_checked"}

Generators ==
    {[llm |-> "llm", parser |-> p, prompt_template |-> "RECIPE_PROMPT"] :
        p \in Parsers}

\* A run makes one generate_recipes call on one generator.
GenerateRecipes ==
    /\ call.op = "none"
    /\ \E self \in Generators, ingredients \in ElemLists, liked \in ElemLists,
          disliked \in ElemLists, llm \in LlmOutcomes :
        LET r == generate_recipes(self, ingredients, liked, disliked, llm) IN
        call' = [op |-> "generate_recipes", self |-> self,
                 ingredients |-> ingredients, liked |-> liked,
                 disliked |-> disliked, llm |-> llm, out |-> r]
    /\ UNCHANGED <<validator, store, requests>>

\* A run may instead make one _invoke_llm call on one generator.
InvokeLlm ==
    /\ call.op = "none"
    /\ \E self \in Generators, ingredients \in ElemLists, llm \in LlmOutcomes :
        LET prompt_text == _format_prompt(self, ingredients, <<>>, <<>>)
            r == _invoke_llm(llm, prompt_text)
        IN call' = [op |-> "_invoke_llm", llm |-> llm,
                    prompt_text |-> prompt_text, exc |-> r.exc,
                    text |-> r.text]
    /\ UNCHANGED <<validator, store, requests>>

NextGen == GenerateRecipes \/ InvokeLlm

SpecGen == Init /\ [][NextGen]_vars

-----------------------------------------------------------------------------
(* Preference storage: IngredientManager and MongoDBHandler *)

\* Ingredient(name, like).model_dump()
Preference(name, like) == [name |-> name, like |-> like]

\* UserPreferences(...).model_dump()
UserPreferences(user_id, ingredients, available_ingredients) ==
    [user_id |-> user_id, client_name |-> "client",
     ingredients |-> ingredients,
     available_ingredients |-> available_ingredients]

\* as _validate_preferences, comparing the names as they are written
_validate_preferences_case_sensitive(ingredients) ==
    LET RECURSIVE loop(_, _)
        loop(i, seen_ingredients) ==
            IF i > Len(ingredients) THEN [exc |-> "none"]
            ELSE
            LET name == ingredients[i].name IN
            IF /\ name \in DOMAIN seen_ingredients
               /\ seen_ingredients[name] # ingredients[i].like
            THEN [exc |-> "ValueError"]
            ELSE loop(i + 1,
                      [n \in DOMAIN seen_ingredients \cup {name} |->
                          IF n = name THEN ingredients[i].like
                          ELSE seen_ingredients[n]])
    IN loop(1, [n \in {} |-> TRUE])

\* IngredientManager._validate_preferences: [exc]
_validate_preferences(ingredients) ==
    LET RECURSIVE loop(_, _)
        loop(i, seen_ingredients) ==
            IF i > Len(ingredients) THEN [exc |-> "none"]
            ELSE
            LET name == lower(ingredients[i].name) IN
            IF /\ name \in DOMAIN seen_ingredients
               /\ seen_ingredients[name] # ingredients[i].like
            THEN [exc |-> "ValueError"]
            ELSE loop(i + 1,
                      [n \in DOMAIN seen_ingredients \cup {name} |->
                          IF n = name THEN ingredients[i].like
                          ELSE seen_ingredients[n]])
    IN loop(1, [n \in {} |-> TRUE])

\* the positions of the documents matching {"user_id": user_id}
Matching(collection, user_id) ==
    {i \in DOMAIN collection : collection[i].user_id = user_id}

First(S) == CHOOSE i \in S : \A j \in S : i <= j

\* as update_one, with every write an insert
update_one_appending(collection, user_id, data) ==
    [collection |-> Append(collection, data),
     upserted |-> Matching(collection, user_id) = {}]

\* collection.update_one({"user_id": ..}, {"$set": data}, upsert=True):
\* [collection, upserted].  The first matching document gets the fields of
\* data; without a match data is inserted
update_one(collection, user_id, data) ==
    IF Matching(collection, user_id) = {}
    THEN [collection |-> Append(collection, data), upserted |-> TRUE]
    ELSE [collection |->
              [collection EXCEPT ![First(Matching(collection, user_id))] = data],
          upserted |-> FALSE]

\* IngredientManager.save_preferences: [exc, ret, collection].  db is what
\* the database does on update_one: "ok", or the PyMongoError it raises
save_preferences(collection, preferences, db) ==
    LET v == _validate_preferences(preferences.ingredients)
        result == update_one(collection, preferences.user_id, preferences)
    IN
    IF v.exc # "none"
    THEN [exc |-> v.exc, ret |-> "none", collection |-> collection]
    ELSE IF db # "ok"
    THEN [exc |-> db, ret |-> "none", collection |-> collection]
    ELSE [exc |-> "none",
          ret |-> IF result.upserted THEN "inserted" ELSE "updated",
          collection |-> result.collection]

\* MongoDBHandler._validate_document: [exc]
_validate_document(document) ==
    IF "user_id" \notin DOMAIN document
    THEN [exc |-> "ValueError"] ELSE [exc |-> "none"]

\* isinstance(data, list): a list is PyList(items), a document is a record of
\* its fields
IsList(data) == "t" \in DOMAIN data

\* the first document of a batch whose user_id is already in the collection
\* or earlier in the batch, or 0
FirstDuplicate(collection, items) ==
    LET dup(i) ==
            \/ Matching(collection, items[i].user_id) # {}
            \/ \E j \in 1..(i - 1) : items[j].user_id = items[i].user_id
        D == {i \in DOMAIN items : dup(i)}
    IN IF D = {} THEN 0 ELSE First(D)

\* collection.insert_many(items): [exc, collection].  An empty list is
\* refused; on a duplicate key the documents before it stay inserted
insert_many(collection, items, db) ==
    IF items = <<>> THEN [exc |-> "TypeError", collection |-> collection]
    ELSE IF db = "BulkWriteError"
    THEN [exc |-> "BulkWriteError",
          collection |->
              collection
              \o SubSeq(items, 1, FirstDuplicate(collection, items) - 1)]
    ELSE IF db # "ok" THEN [exc |-> db, collection |-> collection]
    ELSE [exc |-> "none", collection |-> collection \o items]

\* as insert_data, a batch being validated and inserted document by document
insert_data_one_by_one(collection, data, db) ==
    LET RECURSIVE each(_, _)
        each(i, c) ==
            IF i > Len(data.items) THEN [exc |-> "none", collection |-> c]
            ELSE IF _validate_document(data.items[i]).exc # "none"
            THEN [exc |-> "ValueError", collection |-> c]
            ELSE each(i + 1, Append(c, data.items[i]))
    IN
    IF IsList(data) THEN each(1, collection)
    ELSE IF _validate_document(data).exc # "none"
    THEN [exc |-> "ValueError", collection |-> collection]
    ELSE IF db = "DuplicateKeyError"
    THEN [exc |-> "ValueError", collection |-> collection]
    ELSE IF db # "ok"
    THEN [exc |-> db, collection |-> collection]
    ELSE [exc |-> "none", collection |-> Append(collection, data)]

\* MongoDBHandler.insert_data: [exc, collection].  db is what insert_one or
\* insert_many does: "ok", or the error it raises
insert_data(collection, data, db) ==
    IF IsList(data)
    THEN IF \E i \in DOMAIN data.items :
                _validate_document(data.items[i]).exc # "none"
         THEN [exc |-> "ValueError", collection |-> collection]
         ELSE LET r == insert_many(collection, data.items, db) IN
              IF r.exc = "BulkWriteError"
              THEN [exc |-> "ValueError", collection |-> r.collection]
              ELSE r
    ELSE IF _validate_document(data).exc # "none"
    THEN [exc |-> "ValueError", collection |-> collection]
    ELSE IF db = "DuplicateKeyError"
    THEN [exc |-> "ValueError", collection |-> collection]
    ELSE IF db # "ok"
    THEN [exc |-> db, collection |-> collection]
    ELSE [exc |-> "none", collection |-> Append(collection, data)]

\* MongoDBHandler.fetch_data({"user_id": user_id}): the matching documents
fetch_data(collection, user_id) ==
    LET match(d) == d.user_id = user_id IN SelectSeq(collection, match)

\* document.get(key, []): the value stored under the key, or an empty list
get_or_empty(document, key) ==
    IF key \in DOMAIN document THEN document[key] ELSE <<>>

\* [ingredient["name"] for ingredient in ingredients]
names_of(ingredients) == [i \in DOMAIN ingredients |-> ingredients[i].name]

\* IngredientManager.get_preferences(user_id):
\* [exc, found, liked_ingredients, disliked_ingredients]
get_preferences(collection, user_id, db) ==
    LET found == Matching(collection, user_id) # {}
        preferences == collection[First(Matching(collection, user_id))]
    IN
    IF db # "ok"
    THEN [exc |-> db, found |-> FALSE, liked_ingredients |-> <<>>,
          disliked_ingredients |-> <<>>]
    ELSE IF found
    THEN [exc |-> "none", found |-> TRUE,
          liked_ingredients |->
              names_of(get_or_empty(preferences, "liked_ingredients")),
          disliked_ingredients |->
              names_of(get_or_empty(preferences, "disliked_ingredients"))]
    ELSE [exc |-> "none", found |-> FALSE, liked_ingredients |-> <<>>,
          disliked_ingredients |-> <<>>]

\* the handler of POST /insert_user_preferences/: [status, cause, collection]
insert_user_preferences(collection, preferences, db) ==
    LET r == insert_data(collection, preferences, db) IN
    IF r.exc # "none"
    THEN [status |-> 500, cause |-> r.exc, collection |-> collection]
    ELSE [status |-> 200, cause |-> "none", collection |-> r.collection]

(* The values the storage operations are called with *)

PreferencePool ==
    {Preference(oil, TRUE), Preference(Oil, TRUE), Preference(Oil, FALSE),
     Preference(egg, FALSE)}

PreferenceLists == SeqsUpTo(PreferencePool, MaxPreferences)

\* the records posted to /insert_user_preferences/: two users, one of them
\* without available ingredients, and a second record for the first user
InsertedPreferences ==
    {UserPreferences("u1", <<Preference(oil, TRUE), Preference(egg, FALSE),
                             Preference(Oil, TRUE)>>,
                     <<Available(oil, PyStr(<<9>>)),
                       Available(egg, PyStr(<<2>>))>>),
     UserPreferences("u2", <<>>, <<>>),
     UserPreferences("u1", <<Preference(oil, TRUE), Preference(Oil, FALSE)>>,
                     <<Available(oil, PyStr(<<1, 0>>))>>)}

SavedPreferences ==
    {UserPreferences(u, l, <<Available(oil, PyStr(<<9>>))>>) :
        u \in {"u1", "u3"}, l \in PreferenceLists}

\* the users asked about
UserIds == {"u1", "u2", "u3"}

AllIdle == \A r \in Requests : requests[r].pc = "idle"

\* POST /insert_user_preferences/.  The collection is filled before
\* preferences are saved and before requests are served.
InsertUserPreferences ==
    /\ call.op \in {"none", "insert_user_preferences"}
    /\ AllIdle
    /\ Len(store) < MaxStored
    /\ \E preferences \in InsertedPreferences,
          db \in {"ok", "DuplicateKeyError"} :
        /\ db = "DuplicateKeyError"
              => Matching(store, preferences.user_id) # {}
        /\ LET r == insert_user_preferences(store, preferences, db) IN
           /\ store' = r.collection
           /\ call' = [op |-> "insert_user_preferences",
                       preferences |-> preferences, db |-> db,
                       status |-> r.status, cause |-> r.cause]
    /\ UNCHANGED <<validator, requests>>

\* IngredientManager.save_preferences(preferences), once in a run
SavePreferences ==
    /\ call.op \in {"none", "insert_user_preferences"}
    /\ \E preferences \in SavedPreferences, db \in {"ok", "PyMongoError"} :
        LET r == save_preferences(store, preferences, db) IN
        /\ store' = r.collection
        /\ call' = [op |-> "save_preferences", preferences |-> preferences,
                    db |-> db, exc |-> r.exc, ret |-> r.ret,
                    before |-> store]
    /\ UNCHANGED <<validator, requests>>

\* the documents handed to insert_data: two records with a user_id and a
\* document without one
Documents ==
    {UserPreferences("u1", <<Preference(oil, TRUE)>>,
                     <<Available(oil, PyStr(<<9>>))>>),
     UserPreferences("u2", <<>>, <<>>),
     [client_name |-> "client", ingredients |-> <<>>,
      available_ingredients |-> <<>>]}

\* a document, or a list of documents
InsertArgs == Documents \cup {PyList(l) : l \in SeqsUpTo(Documents, MaxStored)}

\* MongoDBHandler.insert_data(data), once in a run
InsertData ==
    /\ call.op \in {"none", "insert_user_preferences"}
    /\ \E data \in InsertArgs,
          db \in {"ok", "DuplicateKeyError", "BulkWriteError"} :
        /\ db = "DuplicateKeyError" =>
              /\ ~IsList(data) /\ "user_id" \in DOMAIN data
              /\ Matching(store, data.user_id) # {}
        /\ db = "BulkWriteError" =>
              /\ IsList(data)
              /\ \A i \in DOMAIN data.items : "user_id" \in DOMAIN data.items[i]
              /\ FirstDuplicate(store, data.items) # 0
        /\ LET r == insert_data(store, data, db) IN
           /\ store' = r.collection
           /\ call' = [op |-> "insert_data", data |-> data, db |-> db,
                       exc |-> r.exc, before |-> store,
                       inserted |-> Len(r.collection) - Len(store),
                       batch |-> IsList(data)]
    /\ UNCHANGED <<validator, requests>>

\* IngredientManager.get_preferences(user_id), after a save_preferences call
GetPreferences ==
    /\ call.op = "save_preferences"
    /\ \E user_id \in UserIds, db \in {"ok", "PyMongoError"} :
        LET r == get_preferences(store, user_id, db) IN
        call' = [op |-> "get_preferences", user_id |-> user_id, db |-> db,
                 exc |-> r.exc, found |-> r.found,
                 liked_ingredients |-> r.liked_ingredients,
                 disliked_ingredients |-> r.disliked_ingredients,
                 saved |-> call]
    /\ UNCHANGED <<validator, store, requests>>

NextStore ==
    InsertUserPreferences \/ SavePreferences \/ InsertData \/ GetPreferences

SpecStore == Init /\ [][NextStore]_vars

-----------------------------------------------------------------------------
(* The generate-recipes request handler, src/src/api/routers.py *)

DigitChars == <<"0", "1", "2", "3", "4", "5", "6", "7", "8", "9">>

RECURSIVE IntText(_)
IntText(n) ==
    IF n < 10 THEN <<DigitChars[n + 1]>>
    ELSE Append(IntText(n \div 10), DigitChars[(n % 10) + 1])

\* str(quantity)
QuantityText(q) ==
    IF q.t = "str" THEN [i \in DOMAIN q.s |-> DigitChars[q.s[i] + 1]]
    ELSE IntText(q.n)

\* f"{ing['name']} ({ing['quantity']})"
available_ingredients_list(available_ingredients) ==
    [i \in DOMAIN available_ingredients |->
        StrElem(available_ingredients[i].name \o <<" ", "(">>
                \o QuantityText(available_ingredients[i].quantity)
                \o <<")">>)]

\* as liked_names, without the condition
liked_names_unfiltered(ingredients) ==
    [i \in DOMAIN ingredients |-> ingredients[i].name]

\* [ing["name"] for ing in ingredients if ing["like"]]
liked_names(ingredients) ==
    LET like(ing) == ing.like
        sel == SelectSeq(ingredients, like)
    IN [i \in DOMAIN sel |-> sel[i].name]

\* [ing["name"] for ing in ingredients if not ing["like"]]
disliked_names(ingredients) ==
    LET notlike(ing) == ~ing.like
        sel == SelectSeq(ingredients, notlike)
    IN [i \in DOMAIN sel |-> sel[i].name]

\* RecipeGenerator(llm, RECIPE_PARSER, RECIPE_PROMPT); RECIPE_PARSER is a
\* JsonOutputParser, which decodes the text
recipe_generator ==
    [llm |-> "llm", parser |-> "decode_only",
     prompt_template |-> "RECIPE_PROMPT"]

\* the answer of the handler: the dict it returns (status 200) or the
\* HTTPException it raises, with the stage of the handler that raised the
\* error it caught and the kind of that error
Answer(recipes) ==
    [raised |-> "none", status |-> 200, stage |-> "none", cause |-> "none",
     body |-> IF recipes # <<>> THEN "recipes" ELSE "message",
     recipes |-> recipes]

Failure(stage, cause) ==
    [raised |-> "HTTPException", status |-> 500, stage |-> stage,
     cause |-> cause, body |-> "detail", recipes |-> <<>>]

\* as Locals, with the RecipeValidator constructed before the model call: a
\* configuration error ends the request there
Locals_validating_first(user_id, user_data) ==
    IF user_data[1].available_ingredients = <<>>
    THEN [pc |-> "done", user_id |-> user_id,
          response |-> Failure("RecipeValidator", "ValueError")]
    ELSE [pc |-> "awaiting_model", user_id |-> user_id,
          available_ingredients |-> user_data[1].available_ingredients,
          liked_ingredients |-> liked_names(user_data[1].ingredients),
          disliked_ingredients |-> disliked_names(user_data[1].ingredients),
          recipe_generator |-> recipe_generator,
          inputs |->
              [available_ingredients |->
                   available_ingredients_list(
                       user_data[1].available_ingredients),
               liked_ingredients |->
                   [i \in DOMAIN liked_names(user_data[1].ingredients) |->
                       StrElem(liked_names(user_data[1].ingredients)[i])],
               disliked_ingredients |->
                   [i \in DOMAIN disliked_names(user_data[1].ingredients) |->
                       StrElem(disliked_names(user_data[1].ingredients)[i])]]]

\* the local variables of the handler when it awaits the model, lines 101-125
Locals(user_id, user_data) ==
    LET user_preferences == user_data[1]
        ingredients == user_preferences.ingredients
        available_ingredients == user_preferences.available_ingredients
    IN [pc |-> "awaiting_model", user_id |-> user_id,
        available_ingredients |-> available_ingredients,
        liked_ingredients |-> liked_names(ingredients),
        disliked_ingredients |-> disliked_names(ingredients),
        recipe_generator |-> recipe_generator,
        inputs |->
            [available_ingredients |->
                 available_ingredients_list(available_ingredients),
             liked_ingredients |->
                 [i \in DOMAIN liked_names(ingredients) |->
                     StrElem(liked_names(ingredients)[i])],
             disliked_ingredients |->
                 [i \in DOMAIN disliked_names(ingredients) |->
                     StrElem(disliked_names(ingredients)[i])]]]

\* output["recipes"]: [exc, recipes]
subscript_recipes(output) ==
    IF output.shape = "recipes"
    THEN [exc |-> "none", recipes |-> output.recipes]
    ELSE IF output.shape = "list"
    THEN [exc |-> "TypeError", recipes |-> <<>>]
    ELSE IF output.shape = "other"
    THEN [exc |-> "KeyError", recipes |-> <<>>]
    ELSE [exc |-> "TypeError", recipes |-> <<>>]

\* lines 128-161: from the model call to the answer, on the local variables
\* l of the request; llm is what the model call does
finish_request(l, llm) ==
    LET out == generate_recipes(l.recipe_generator,
                                l.inputs.available_ingredients,
                                l.inputs.liked_ingredients,
                                l.inputs.disliked_ingredients, llm)
        v == RecipeValidator_init(PyList(l.available_ingredients),
                                  PyList(l.disliked_ingredients),
                                  PyInt(3))
        sub == subscript_recipes(out.ret)
        valid_recipes == validate_recipes(v.self, sub.recipes)
    IN
    IF out.exc # "none" THEN Failure("generate_recipes", out.exc)
    ELSE IF v.exc # "none" THEN Failure("RecipeValidator", v.exc)
    ELSE IF sub.exc # "none" THEN Failure("output[recipes]", sub.exc)
    ELSE IF valid_recipes.exc # "none"
    THEN Failure("validate_recipes", valid_recipes.exc)
    ELSE Answer(valid_recipes.ret)

\* the handler of POST /get_user_preferences/: [status, cause, preferences].
\* The HTTPException(404) is raised inside the try block, whose
\* `except Exception` catches it and raises HTTPException(500)
get_user_preferences(collection, user_id) ==
    LET preferences == fetch_data(collection, user_id) IN
    IF preferences # <<>>
    THEN [status |-> 200, cause |-> "none", preferences |-> <<preferences[1]>>]
    ELSE [status |-> 500, cause |-> "HTTPException", preferences |-> <<>>]

\* generate_recipes_for_user, run from its first line to its answer against
\* one collection
generate_recipes_for_user(collection, user_id, llm) ==
    LET user_data == fetch_data(collection, user_id) IN
    IF user_data = <<>> THEN Failure("fetch_data", "HTTPException")
    ELSE finish_request(Locals(user_id, user_data), llm)

(* The requests served *)

\* a candidate listing three ingredients, each named in a step, and one
\* listing a single ingredient
ThreeIngredients ==
    Recipe(AllFields,
           <<Ingredient(oil, PyStr(<<1>>)), Ingredient(egg, PyStr(<<1>>)),
             Ingredient(Oil, PyStr(<<1>>))>>,
           <<add_OIL, fry_egg>>)

OneIngredient ==
    Recipe(AllFields, <<Ingredient(oil, PyStr(<<1>>))>>, <<add_OIL>>)

\* what the model call of a request can do
RequestLlmOutcomes ==
    {[does |-> "return", reply |-> "message", text |-> t, exc |-> "none"] :
        t \in {NotJson, JsonText(OtherJson), JsonText(RecipesDict(<<>>)),
               JsonText(RecipesDict(<<[key |-> 1, recipe |-> OneIngredient],
                                      [key |-> 2,
                                       recipe |-> ThreeIngredients]>>))}}
    \cup {[does |-> "raise", reply |-> "none", text |-> NotJson,
           exc |-> "ValueError"]}

\* as with_locals, the variables being module-level ones that every request
\* awaiting the model reads
with_shared_locals(reqs, r, l) ==
    [q \in Requests |->
        IF q = r THEN l
        ELSE IF reqs[q].pc = "awaiting_model"
        THEN [l EXCEPT !.user_id = reqs[q].user_id]
        ELSE reqs[q]]

\* the variables assigned in lines 101-125 are locals of the coroutine of
\* request r
with_locals(reqs, r, l) == [reqs EXCEPT ![r] = l]

\* a request arrives: the handler runs to `await mongo_handler.fetch_data`
StartRequest ==
    /\ \E r \in Requests, user_id \in UserIds :
        /\ requests[r].pc = "idle"
        /\ requests' = [requests EXCEPT
                            ![r] = [pc |-> "fetching", user_id |-> user_id]]
    /\ UNCHANGED <<validator, call, store>>

\* fetch_data returns: without a record the handler raises, otherwise it runs
\* to the model call awaited inside generate_recipes
Fetched ==
    /\ \E r \in Requests :
        /\ requests[r].pc = "fetching"
        /\ LET user_id == requests[r].user_id
               user_data == fetch_data(store, user_id)
           IN
           IF user_data = <<>>
           THEN requests' =
                    [requests EXCEPT
                        ![r] = [pc |-> "done", user_id |-> user_id,
                                response |->
                                    Failure("fetch_data", "HTTPException")]]
           ELSE requests' =
                    with_locals(requests, r, Locals(user_id, user_data))
    /\ UNCHANGED <<validator, call, store>>

\* the model call returns or raises: the handler runs to its answer.  The
\* record of the answered request notes whether another request was awaiting
\* its model call at that moment
ModelReplied ==
    /\ \E r \in Requests, llm \in RequestLlmOutcomes :
        /\ requests[r].pc = "awaiting_model"
        /\ requests' =
              [requests EXCEPT
                  ![r] = [pc |-> "done", user_id |-> requests[r].user_id,
                          locals |-> requests[r], llm |-> llm,
                          concurrent |->
                              \E q \in Requests \ {r} :
                                  requests[q].pc = "awaiting_model",
                          response |-> finish_request(requests[r], llm)]]
    /\ UNCHANGED <<validator, call, store>>

\* POST /get_user_preferences/, once in a run, while no request is served
GetUserPreferences ==
    /\ call.op \in {"none", "insert_user_preferences"}
    /\ AllIdle
    /\ \E user_id \in UserIds :
        LET r == get_user_preferences(store, user_id) IN
        call' = [op |-> "get_user_preferences", user_id |-> user_id,
                 status |-> r.status, cause |-> r.cause,
                 preferences |-> r.preferences, before |-> call.op]
    /\ UNCHANGED <<validator, store, requests>>

NextApi ==
    \/ InsertUserPreferences
    \/ GetUserPreferences
    \/ StartRequest
    \/ Fetched
    \/ ModelReplied

SpecApi == Init /\ [][NextApi]_vars

-----------------------------------------------------------------------------
(* What the claims speak of, stated without the validator's own operators *)

\* the number a quantity stands for
RECURSIVE Decimal(_)
Decimal(digits) ==
    IF digits = <<>> THEN 0
    ELSE 10 * Decimal(SubSeq(digits, 1, Len(digits) - 1)) + digits[Len(digits)]

Num(q) == IF q.t = "int" THEN q.n ELSE Decimal(q.s)

\* the same letter, whatever its case
SameLetter(a, b) ==
    a = b \/ \E i \in DOMAIN UpperCase : {a, b} = {UpperCase[i], LowerCase[i]}

\* name occurs in text as a case-insensitive substring
OccursIn(name, text) ==
    \E off \in 0..(Len(text) - Len(name)) :
        \A j \in 1..Len(name) : SameLetter(name[j], text[off + j])

WellFormed(ingredient) == ingredient.keys = {"name", "quantity"}

\* the entries of available that carry this name
Tracking(v, name) ==
    {k \in DOMAIN v.available_ingredients :
        v.available_ingredients[k].name = name}

HasFiveFields(recipe) == AllFields \subseteq recipe.keys

\* no tracked ingredient requires more than is available, as numbers
QuantitiesSuffice(v, ingredients) ==
    \A i \in DOMAIN ingredients :
        /\ WellFormed(ingredients[i])
        /\ \A k \in Tracking(v, ingredients[i].name) :
              Num(ingredients[i].quantity)
                  <= Num(v.available_ingredients[k].quantity)

\* enough ingredients, each named in some step
MakesCulinarySense(v, ingredients, steps) ==
    /\ Len(ingredients) >= v.min_ingredients_required
    /\ \A i \in DOMAIN ingredients :
          \E j \in DOMAIN steps : OccursIn(ingredients[i].name, steps[j])

PassesAllChecks(v, recipe) ==
    /\ HasFiveFields(recipe)
    /\ QuantitiesSuffice(v, recipe.ingredients)
    /\ MakesCulinarySense(v, recipe.ingredients, recipe.steps)

Returned(recipe) == \E i \in DOMAIN call.ret : call.ret[i] = recipe

Completed(op) == call.op = op /\ call.exc = "none"

-----------------------------------------------------------------------------
(* Claims *)

\* C3: every recipe that validate_recipes returns has the five required
\* fields, requires of no tracked ingredient more than the available quantity
\* (as numbers), lists at least min_ingredients ingredients and names each of
\* them in some step; a recipe failing one of these is absent from the result.
C3_ReturnedPassAllChecks ==
    Completed("validate_recipes") =>
        /\ \A i \in DOMAIN call.ret : PassesAllChecks(validator, call.ret[i])
        /\ \A i \in DOMAIN call.recipes :
              ~PassesAllChecks(validator, call.recipes[i].recipe)
                  => ~Returned(call.recipes[i].recipe)

\* C4: a recipe with the five fields whose tracked quantities suffice (as
\* numbers), whose ingredients are all named in some step and that lists at
\* least min_ingredients ingredients is accepted and returned unchanged.
C4_PassingRecipeAccepted ==
    Completed("validate_recipes") =>
        \A i \in DOMAIN call.recipes :
            PassesAllChecks(validator, call.recipes[i].recipe)
                => Returned(call.recipes[i].recipe)

\* C5: the quantity check compares numerically, also when both quantities are
\* string tokens: it passes exactly when every tracked ingredient requires at
\* most the available quantity as numbers.
C5_QuantityCheckIsNumeric ==
    Completed("validate_ingredient_quantities") =>
        (call.ret <=> QuantitiesSuffice(validator, call.ingredients))

\* C6: a recipe candidate missing one of the five required fields is rejected
\* by the structural check, and validate_recipes runs neither the quantity
\* check nor the culinary-sense check against it.
C6_MissingFieldStopsAtStructure ==
    /\ call.op = "validate_recipe_structure" /\ ~HasFiveFields(call.recipe)
          => call.ret = FALSE
    /\ call.op = "validate_recipes" =>
          \A i \in DOMAIN call.recipes :
              ~HasFiveFields(call.recipes[i].recipe) =>
                  /\ \A n \in DOMAIN call.checks :
                        call.checks[n].at = i
                            => call.checks[n].check = "structure"
                  /\ call.exc = "none" =>
                        /\ \E n \in DOMAIN call.checks :
                              call.checks[n] = [at |-> i, check |-> "structure"]
                        /\ ~Returned(call.recipes[i].recipe)

\* C6 happens: a collection holding a candidate that lacks a field and a
\* candidate that is returned
C6_Witness ==
    /\ Completed("validate_recipes")
    /\ Len(call.ret) = 1
    /\ \E i \in DOMAIN call.recipes : ~HasFiveFields(call.recipes[i].recipe)

\* C7: the culinary-sense check fails exactly when the recipe lists fewer than
\* min_ingredients ingredients or some listed ingredient's name is not a
\* case-insensitive substring of any step; otherwise it passes.
C7_CulinarySenseExact ==
    (/\ call.op = "validate_culinary_sense"
     /\ \A i \in DOMAIN call.ingredients : "name" \in call.ingredients[i].keys)
    => /\ call.exc = "none"
       /\ call.ret = FALSE <=>
            \/ Len(call.ingredients) < validator.min_ingredients_required
            \/ \E i \in DOMAIN call.ingredients :
                  \A j \in DOMAIN call.steps :
                      ~OccursIn(call.ingredients[i].name, call.steps[j])

\* C7 happens: the check passes on a name that the steps spell in another case
C7_Witness ==
    /\ Completed("validate_culinary_sense")
    /\ call.ret = TRUE
    /\ \E i \in DOMAIN call.ingredients :
          /\ "name" \in call.ingredients[i].keys
          /\ \A j \in DOMAIN call.steps :
                ~StrIn(call.ingredients[i].name, call.steps[j])

\* the ingredients of the call whose name is in available
TrackedOnly(v, ingredients) ==
    LET tracked(e) == Tracking(v, e.name) # {}
    IN SelectSeq(ingredients, tracked)

BadConfiguration(a, d, m) ==
    \/ a.t # "list" \/ a.items = <<>>
    \/ \E i \in DOMAIN a.items :
          a.items[i].t # "dict" \/ ~({"name", "quantity"} \subseteq a.items[i].keys)
    \/ d.t # "list"
    \/ m.t # "int" \/ m.n <= 0

\* C9: constructing a RecipeValidator fails with ValueError, and produces no
\* validator, whenever available is empty or not a list of records carrying
\* name and quantity, whenever disliked is supplied and is not a list, and
\* whenever min_ingredients is not a positive integer.
C9_BadConfigurationRefused ==
    (call.op = "init" /\ BadConfiguration(call.available, call.disliked, call.min))
        => (call.exc = "ValueError" /\ ~validator.made)

\* the model was invoked on this call
Invoked == call.op = "generate_recipes" /\ call.out.llm_prompts # <<>>

NonString(l) == \E i \in DOMAIN l : l[i].t # "str"

\* C1: whenever the model call raises an error, generate_recipes returns an
\* empty sequence and raises nothing.
C1_ModelErrorGivesEmptyList ==
    (Invoked /\ call.llm.does = "raise")
        => (call.out.exc = "none" /\ call.out.ret = EmptyList)

\* C1 happens: the model was invoked and raised
C1_Witness ==
    Invoked /\ call.llm.does = "raise" /\ call.out.caught = "ValueError"

\* C2: if an element of ingredients, liked or disliked is not a string,
\* generate_recipes fails with ValueError, and before that failure no prompt
\* was built and the model was not invoked.
C2_NonStringFailsBeforeModel ==
    (/\ call.op = "generate_recipes"
     /\ NonString(call.ingredients) \/ NonString(call.liked)
            \/ NonString(call.disliked))
    => /\ call.out.exc = "ValueError"
       /\ ~call.out.prompt_built
       /\ call.out.llm_prompts = <<>>

\* C2 happens: only the disliked list holds a non-string element
C2_Witness ==
    /\ call.op = "generate_recipes"
    /\ ~NonString(call.ingredients) /\ ~NonString(call.liked)
    /\ NonString(call.disliked)
    /\ call.out.exc = "ValueError"

PassedValidation ==
    /\ call.op = "generate_recipes"
    /\ ~NonString(call.ingredients) /\ ~NonString(call.liked)
    /\ ~NonString(call.disliked)

\* C11: a generate_recipes call that passes input validation invokes the model
\* exactly once, with the prompt formatted from the template, the three lists
\* and the format instructions: no second call after a success, no retry
\* after a failure.
C11_ModelInvokedOnce ==
    PassedValidation =>
        /\ Len(call.out.llm_prompts) = 1
        /\ call.out.llm_prompts[1] =
              [template |-> call.self.prompt_template,
               available_ingredients |-> call.ingredients,
               liked_ingredients |-> call.liked,
               disliked_ingredients |-> call.disliked,
               format_instructions |-> call.self.parser]

\* C11 happens: the one invocation raised, and the call ended with the empty
\* list without a second invocation
C11_Witness ==
    /\ PassedValidation /\ call.llm.does = "raise"
    /\ Len(call.out.llm_prompts) = 1
    /\ call.out.ret = EmptyList

\* C12: the model invoker supports exactly two reply shapes: a reply exposing
\* content yields that content, a plain-string reply yields the string, and a
\* reply of any other shape makes _invoke_llm raise its error instead of
\* being turned into text.
C12_OnlyTwoReplyShapes ==
    (call.op = "_invoke_llm" /\ call.llm.does = "return") =>
        /\ call.llm.reply \in {"message", "str"}
              => (call.exc = "none" /\ call.text = call.llm.text)
        /\ call.llm.reply \notin {"message", "str"}
              => call.exc = "ValueError"

\* the same name, whatever the case of its letters
SameName(a, b) ==
    Len(a) = Len(b) /\ \A k \in DOMAIN a : SameLetter(a[k], b[k])

\* some name occurs in the list both liked and not liked
Contradictory(ingredients) ==
    \E i, j \in DOMAIN ingredients :
        /\ SameName(ingredients[i].name, ingredients[j].name)
        /\ ingredients[i].like # ingredients[j].like

\* C19: after any sequence of save_preferences calls and posts to the
\* insert_user_preferences endpoint, no stored record holds an ingredient
\* name (compared case-insensitively) both with like true and with like
\* false.
C19_StoredContradictionFree ==
    \A i \in DOMAIN store : ~Contradictory(store[i].ingredients)

\* C20: save_preferences raises ValueError exactly when some name of the
\* list, compared case-insensitively, occurs with both values of like
\* (repeats with one value are allowed), and then the collection is written
\* nothing.
C20_SaveRejectsContradictions ==
    call.op = "save_preferences" =>
        /\ call.exc = "ValueError"
              <=> Contradictory(call.preferences.ingredients)
        /\ call.exc = "ValueError" => store = call.before

\* C20 happens: a list is rejected whose contradicting entries are written in
\* different case and are not adjacent, and the stored record of that user
\* stays as it was
C20_Witness ==
    /\ call.op = "save_preferences" /\ call.exc = "ValueError"
    /\ call.preferences.ingredients
          = <<Preference(oil, TRUE), Preference(egg, FALSE),
              Preference(Oil, FALSE)>>
    /\ Matching(store, call.preferences.user_id) # {}
    /\ store = call.before

\* request r has been answered after its model call
Answered(r) == requests[r].pc = "done" /\ "llm" \in DOMAIN requests[r]

\* C13: in the generate-recipes request flow a failure of the model call is
\* absorbed: the request is answered successfully, with zero recipes, and no
\* error response is produced for it.
C13_ModelFailureAbsorbed ==
    \A r \in Requests :
        (Answered(r) /\ requests[r].llm.does = "raise") =>
            /\ requests[r].response.raised = "none"
            /\ requests[r].response.status = 200
            /\ requests[r].response.recipes = <<>>

\* C14: a ValueError raised by the RecipeValidator constructor during a
\* request is not caught or converted by the handler: the request ends with
\* that same error, not with an answer and not with another error.
C14_ConfigErrorPropagates ==
    \A r \in Requests :
        (/\ Answered(r)
         /\ requests[r].response.stage = "RecipeValidator")
        => requests[r].response.raised = "ValueError"

\* C18: when two generate-recipes requests run interleaved, each works on
\* local variables made from its own preference record, and each is answered
\* as it would be when run alone against the same collection with the same
\* model reply.
C18_RequestsDoNotInterfere ==
    \A r \in Requests :
        Answered(r) =>
            /\ requests[r].locals
                  = Locals(requests[r].user_id,
                           fetch_data(store, requests[r].user_id))
            /\ requests[r].response
                  = generate_recipes_for_user(store, requests[r].user_id,
                                              requests[r].llm)

\* C18 happens: the two requests are for different users, both awaited the
\* model at the same time, got the same reply and were answered differently
C18_Witness ==
    /\ Answered(1) /\ Answered(2)
    /\ requests[1].concurrent
    /\ requests[1].user_id # requests[2].user_id
    /\ requests[1].llm = requests[2].llm
    /\ requests[1].response.raised = "none"
    /\ requests[1].response.body = "recipes"
    /\ requests[2].response.raised = "HTTPException"

RECURSIVE PickAt(_, _, _)
PickAt(recipes, I, i) ==
    IF i > Len(recipes) THEN <<>>
    ELSE (IF i \in I THEN <<recipes[i].recipe>> ELSE <<>>)
         \o PickAt(recipes, I, i + 1)

\* the positions of the entries for which no error was logged
NotRejected ==
    {i \in DOMAIN call.recipes :
        \A n \in DOMAIN call.logged :
            call.logged[n].key # call.recipes[i].key}

\* C16: validate_recipes examines every entry of the mapping, whatever its
\* key, and returns the accepted entries as a subsequence of the mapping's
\* values in iteration order: each accepted entry once, and nothing else.
C16_AcceptedInIterationOrder ==
    Completed("validate_recipes") =>
        /\ \A i \in DOMAIN call.recipes :
              \E n \in DOMAIN call.checks :
                  call.checks[n] = [at |-> i, check |-> "structure"]
        /\ call.ret = PickAt(call.recipes, NotRejected, 1)

\* C16 happens: two different recipes are accepted from a mapping whose keys
\* are not in ascending order
C16_Witness ==
    /\ Completed("validate_recipes")
    /\ Len(call.recipes) = 2 /\ Len(call.ret) = 2
    /\ call.recipes[1].key > call.recipes[2].key
    /\ call.ret[1] # call.ret[2]

Handed ==
    IF call.batch THEN call.data.items ELSE <<call.data>>

\* C21: insert_data fails with ValueError for a document lacking user_id, and
\* a batch fails as a whole: if any document of the list lacks user_id, no
\* document of the list is inserted and the collection stays as it was.
C21_MissingUserIdRefused ==
    (/\ call.op = "insert_data"
     /\ \E i \in DOMAIN Handed : "user_id" \notin DOMAIN Handed[i])
    => (call.exc = "ValueError" /\ store = call.before)

\* C21 happens: a batch whose first document carries a user_id and whose
\* second lacks it is refused, and the collection keeps its one record
C21_Witness ==
    /\ call.op = "insert_data" /\ call.batch
    /\ Len(call.data.items) = 2
    /\ "user_id" \in DOMAIN call.data.items[1]
    /\ "user_id" \notin DOMAIN call.data.items[2]
    /\ call.exc = "ValueError"
    /\ Len(call.before) = 1 /\ store = call.before

\* at most one record per user_id
OnePerUser(collection) ==
    \A i, j \in DOMAIN collection :
        collection[i].user_id = collection[j].user_id => i = j

\* the records of the collection that belong to other users than user_id
OthersOf(collection, user_id) ==
    {collection[i] : i \in DOMAIN collection \ Matching(collection, user_id)}

\* C22: save_preferences is an upsert keyed by user_id: it reports "inserted"
\* when the collection held no record of that user and "updated" when it
\* held one; a collection with at most one record per user keeps that
\* property, holds the saved preferences as the record of that user, and
\* keeps the records of the other users.  (So after any sequence of saves,
\* starting from such a collection, each user has at most one record, the
\* one saved last.)
C22_SaveIsUpsert ==
    (call.op = "save_preferences" /\ call.exc = "none") =>
        LET user_id == call.preferences.user_id IN
        /\ call.ret = (IF Matching(call.before, user_id) = {}
                       THEN "inserted" ELSE "updated")
        /\ OnePerUser(call.before) =>
              /\ OnePerUser(store)
              /\ \E i \in DOMAIN store : store[i] = call.preferences
              /\ OthersOf(store, user_id) = OthersOf(call.before, user_id)

\* C22 happens: a save replaces the record the user had, next to the record
\* of another user
C22_Witness ==
    /\ call.op = "save_preferences" /\ call.exc = "none"
    /\ call.ret = "updated"
    /\ OnePerUser(call.before) /\ Len(call.before) = 2
    /\ store # call.before

\* the names of the entries with this value of like, in the order of the list
RECURSIVE NamesWith(_, _)
NamesWith(ingredients, like) ==
    IF ingredients = <<>> THEN <<>>
    ELSE (IF Head(ingredients).like = like
          THEN <<Head(ingredients).name>> ELSE <<>>)
         \o NamesWith(Tail(ingredients), like)

\* the stored record a request for user_id works on
RecordOf(user_id) == store[First(Matching(store, user_id))]

\* C23: the lists the handler derives from the stored record partition its
\* ingredient preferences: liked is the names with like true and disliked
\* the names with like false, both in record order, every entry is in
\* exactly one of them, and the available-ingredient list is the stored one.
C23_PreferenceViewPartitions ==
    \A r \in Requests :
        requests[r].pc = "awaiting_model" =>
            LET record == RecordOf(requests[r].user_id)
                l == requests[r]
            IN
            /\ l.liked_ingredients = NamesWith(record.ingredients, TRUE)
            /\ l.disliked_ingredients = NamesWith(record.ingredients, FALSE)
            /\ Len(l.liked_ingredients) + Len(l.disliked_ingredients)
                  = Len(record.ingredients)
            /\ l.available_ingredients = record.available_ingredients

\* C23 happens: a record with two liked names around a disliked one
C23_Witness ==
    \E r \in Requests :
        /\ requests[r].pc = "awaiting_model"
        /\ requests[r].liked_ingredients = <<oil, Oil>>
        /\ requests[r].disliked_ingredients = <<egg>>
        /\ Len(requests[r].available_ingredients) = 2

\* the warnings due for the empty ones among the three lists, in the order of
\* the arguments
EmptyListWarnings(ingredients, liked, disliked) ==
    LET due(l, text) == IF Len(l) = 0 THEN <<text>> ELSE <<>> IN
    due(ingredients, "No available ingredients provided")
        \o due(liked, "No liked ingredients provided")
        \o due(disliked, "No disliked ingredients provided")

C25_SaveGetRoundTrip ==
    (call.op = "get_preferences" /\ call.exc = "none") =>
        /\ (/\ call.saved.exc = "none"
            /\ call.user_id = call.saved.preferences.user_id)
           => /\ call.liked_ingredients =
                    NamesWith(call.saved.preferences.ingredients, TRUE)
              /\ call.disliked_ingredients =
                    NamesWith(call.saved.preferences.ingredients, FALSE)
        /\ ~call.found
           => /\ call.liked_ingredients = <<>>
              /\ call.disliked_ingredients = <<>>

\* what get_preferences does return after a save: two empty lists, whatever
\* was saved
C25_GetReturnsEmptyLists ==
    (call.op = "get_preferences" /\ call.exc = "none") =>
        /\ call.liked_ingredients = <<>>
        /\ call.disliked_ingredients = <<>>

\* a successful save of a liked name, read back for the same user
C25_Witness ==
    /\ call.op = "get_preferences" /\ call.exc = "none" /\ call.found
    /\ call.saved.exc = "none"
    /\ call.user_id = call.saved.preferences.user_id
    /\ NamesWith(call.saved.preferences.ingredients, TRUE) # <<>>

\* a recipe with the five fields that is malformed inside: an ingredient
\* entry lacks name or quantity, or its quantity and the available quantity
\* of its name are of types Python does not compare
MalformedInside(v, recipe) ==
    /\ HasFiveFields(recipe)
    /\ \E i \in DOMAIN recipe.ingredients :
          LET ingredient == recipe.ingredients[i] IN
          \/ ~WellFormed(ingredient)
          \/ \E k \in Tracking(v, ingredient.name) :
                ingredient.quantity.t # v.available_ingredients[k].quantity.t

\* the entry is accepted when it is validated on its own
ValidAlone(v, entry) ==
    LET alone == validate_recipes(v, <<entry>>) IN
    alone.exc = "none" /\ alone.ret = <<entry.recipe>>

\* C26: validate_recipes always returns a list: a recipe with the five
\* fields that is malformed inside is dropped alone, and every other entry
\* of the collection is still evaluated and, if valid, returned.
C26_MalformedDroppedAlone ==
    call.op = "validate_recipes" =>
        /\ call.exc = "none"
        /\ \A i \in DOMAIN call.recipes :
              /\ \E n \in DOMAIN call.checks :
                    call.checks[n] = [at |-> i, check |-> "structure"]
              /\ MalformedInside(validator, call.recipes[i].recipe)
                    => ~Returned(call.recipes[i].recipe)
              /\ ValidAlone(validator, call.recipes[i])
                    => Returned(call.recipes[i].recipe)

\* a collection with a valid entry after a malformed one
C26_Witness ==
    /\ call.op = "validate_recipes"
    /\ Len(call.recipes) = 2
    /\ MalformedInside(validator, call.recipes[1].recipe)
    /\ ValidAlone(validator, call.recipes[2])
    /\ call.exc # "none"

\* no preference record is stored for user_id
NoRecord(user_id) == Matching(store, user_id) = {}

\* C27: when no preference record exists for the requested user_id, the
\* get_user_preferences and generate_recipes_for_user handlers answer with
\* status 404, and generate_recipes_for_user makes no model call.
C27_MissingRecordIs404 ==
    /\ (call.op = "get_user_preferences" /\ NoRecord(call.user_id))
           => call.status = 404
    /\ \A r \in Requests :
          (requests[r].pc = "done" /\ NoRecord(requests[r].user_id))
              => /\ requests[r].response.status = 404
                 /\ ~Answered(r)

\* what the two handlers do answer without a record: status 500, made from
\* the HTTPException they raised themselves; no model call is made
C27_MissingRecordIs500 ==
    /\ (call.op = "get_user_preferences" /\ NoRecord(call.user_id))
           => call.status = 500 /\ call.cause = "HTTPException"
    /\ \A r \in Requests :
          (requests[r].pc = "done" /\ NoRecord(requests[r].user_id))
              => /\ requests[r].response.status = 500
                 /\ requests[r].response.cause = "HTTPException"
                 /\ ~Answered(r)

\* both handlers have answered for a user without a record
C27_Witness ==
    /\ call.op = "get_user_preferences" /\ NoRecord(call.user_id)
    /\ \E r \in Requests :
          requests[r].pc = "done" /\ NoRecord(requests[r].user_id)

\* the disliked arguments a validator can be constructed with
AcceptedDisliked ==
    {d \in DislikedArgs :
        RecipeValidator_init(PyList(validator.available_ingredients), d,
                             PyInt(validator.min_ingredients_required)).exc
            = "none"}

\* the recipe lists an ingredient of the disliked list
ListsDisliked(v, recipe) ==
    \E i \in DOMAIN recipe.ingredients :
        \E d \in DOMAIN v.disliked_ingredients.items :
            /\ "name" \in recipe.ingredients[i].keys
            /\ recipe.ingredients[i].name = v.disliked_ingredients.items[d]

\* the recipe passes the structural, quantity and culinary-sense checks
PassesThreeChecks(v, recipe) ==
    /\ validate_recipe_structure(v, recipe)
    /\ validate_ingredient_quantities(v, recipe.ingredients)
          = [exc |-> "none", ret |-> TRUE]
    /\ validate_culinary_sense(v, recipe.ingredients, recipe.steps)
          = [exc |-> "none", ret |-> TRUE]

\* C28: the result of validate_recipes does not depend on the disliked
\* list: a validator differing only in disliked returns the same result for
\* the same collection, and a recipe listing a disliked ingredient is
\* accepted whenever it passes the structural, quantity and culinary-sense
\* checks.
C28_DislikedDoesNotMatter ==
    call.op = "validate_recipes" =>
        /\ \A d \in AcceptedDisliked :
              LET other == validate_recipes(
                               [validator EXCEPT !.disliked_ingredients = d],
                               call.recipes)
              IN other.exc = call.exc /\ other.ret = call.ret
        /\ call.exc = "none" =>
              \A i \in DOMAIN call.recipes :
                  (/\ ListsDisliked(validator, call.recipes[i].recipe)
                   /\ PassesThreeChecks(validator, call.recipes[i].recipe))
                  => Returned(call.recipes[i].recipe)

\* C28 happens: a validator that dislikes egg returns a recipe listing egg
C28_Witness ==
    /\ Completed("validate_recipes")
    /\ validator.disliked_ingredients = PyList(<<egg>>)
    /\ Cardinality(AcceptedDisliked) > 1
    /\ \E i \in DOMAIN call.ret :
          /\ ListsDisliked(validator, call.ret[i])
          /\ PassesThreeChecks(validator, call.ret[i])

\* the name is in available only up to letter case
CaseVariantOnly(v, name) ==
    /\ Tracking(v, name) = {}
    /\ \E k \in DOMAIN v.available_ingredients :
          SameName(v.available_ingredients[k].name, name)

\* the ingredients of the call but those named in available only up to case
WithoutCaseVariants(v, ingredients) ==
    LET kept(e) == ~CaseVariantOnly(v, e.name)
    IN SelectSeq(ingredients, kept)

EmptyAvailable(user_id) ==
    ~NoRecord(user_id) /\ RecordOf(user_id).available_ingredients = <<>>

\* C30: in the generate-recipes request flow the model is invoked before
\* the RecipeValidator is constructed: a request whose stored
\* available-ingredient list is empty ends with the validator's
\* configuration error, and only after one model call has been made.
C30_ModelCalledBeforeValidator ==
    \A r \in Requests :
        /\ (requests[r].pc = "done" /\ EmptyAvailable(requests[r].user_id))
            => /\ Answered(r)
               /\ requests[r].response.stage = "RecipeValidator"
               /\ requests[r].response.cause = "ValueError"
               /\ LET l == requests[r].locals IN
                  Len(generate_recipes(l.recipe_generator,
                                       l.inputs.available_ingredients,
                                       l.inputs.liked_ingredients,
                                       l.inputs.disliked_ingredients,
                                       requests[r].llm).llm_prompts) = 1
        /\ (/\ requests[r].pc = "done"
            /\ requests[r].response.stage = "RecipeValidator")
            => Answered(r)

\* C30 happens: the model has replied to a request for a user whose
\* available list is empty, and the request ended with the validator's error
C30_Witness ==
    \E r \in Requests :
        /\ Answered(r) /\ EmptyAvailable(requests[r].user_id)
        /\ requests[r].llm.does = "return"
        /\ requests[r].response.stage = "RecipeValidator"

=============================================================================
